---- MODULE Spec2Model ----
(***************************************************************************)
(* The sharded buffer cache of kernel/bio.c: NBUCKET hash buckets, each a  *)
(* singly linked chain of struct buf guarded by its own spinlock, and a    *)
(* sleep-lock per buffer.  Threads run bread (bget), bwrite, brelse, bpin  *)
(* and bunpin; one step of the model is one stretch of a function between  *)
(* two points where the thread can block or where a lock changes hands.    *)
(***************************************************************************)
EXTENDS Integers, Naturals, Sequences, FiniteSets, TLC

VARIABLES
  cfg,       \* the workload: pool size, threads, block numbers, payload values
  dev,       \* b->dev
  blockno,   \* b->blockno
  valid,     \* b->valid
  refcnt,    \* b->refcnt
  time,      \* b->time
  data,      \* b->data, one abstract payload value per buffer
  chain,     \* bcache.bucket[i].next ...: the buffers of bucket i, in list order
  lock,      \* bcache.lock[i]: 0 when free, else the thread (cpu) holding it
  slk,       \* b->lock (sleeplock): [locked, pid]
  ticks,     \* the global tick counter
  disk,      \* the device: payload stored for every (dev, blockno)
  panicked,  \* "none", or the message of the panic that halted the kernel
  pc,        \* where each thread stands
  loc,       \* each thread's locals: arguments, bucket_id, j, index, min_tick, b
  held,      \* the buffers each thread got from bread and has not yet brelse'd
  pinned,    \* number of bpin calls on a buffer not yet undone by bunpin
  dirty,     \* the payload was rewritten since the device last read or wrote it
  origin,    \* the (dev, blockno) the buffer's payload was last read from
  killed,    \* p->killed: "no", or where the signal found the thread in its
             \* current cache operation: "waiting" for a content lock, or "running"
  nreq       \* scripted workload only: number of bread calls issued so far

vars == <<cfg, dev, blockno, valid, refcnt, time, data, chain, lock, slk, ticks,
          disk, panicked, pc, loc, held, pinned, dirty, origin, killed, nreq>>

----------------------------------------------------------------------------
(* Program constants *)

NBUCKET == 13
NBUF == 30
\* min_tick = 0xffffffff, the largest uint: above every timestamp.  TLC's integers
\* end at 2^31 - 1, which is above every timestamp of the model as well.
MinTickInit == 2147483647

(* Bounds of the model *)

NThreads == 2
PoolSize == 2
MaxTicks == 1
MaxDev == 1
MaxVal == 1
MaxPins == 1

NoBuf == -1
Threads == 1..NThreads
Devs == 1..MaxDev
Buckets == 0..(NBUCKET - 1)

\* Block numbers of the small workloads: three neighbouring buckets, of which
\* bucket 1 scans bucket 0 only, bucket 2 scans 0 and 1, bucket 3 scans 0, 1, 2.
SmallBlocks == {1, 2, 3}

\* Two threads and the clock, no pins, payloads never modified.
ConcCfg ==
  [name |-> "conc", nbuf |-> PoolSize, threads |-> Threads,
   blocks |-> SmallBlocks, vals |-> {0}, maxticks |-> MaxTicks, maxpins |-> 0,
   script |-> FALSE, kill |-> FALSE]

\* Two threads that also pin and unpin, the clock stopped.
PinCfg ==
  [name |-> "pin", nbuf |-> PoolSize, threads |-> Threads,
   blocks |-> SmallBlocks, vals |-> {0}, maxticks |-> 0, maxpins |-> MaxPins,
   script |-> FALSE, kill |-> FALSE]

\* Two threads that can be sent a termination signal, the clock stopped.
KillCfg ==
  [name |-> "kill", nbuf |-> PoolSize, threads |-> Threads,
   blocks |-> {1, 2}, vals |-> {0}, maxticks |-> 0, maxpins |-> 0,
   script |-> FALSE, kill |-> TRUE]

\* One thread that also pins and unpins, the clock running.
UnpinCfg ==
  [name |-> "unpin", nbuf |-> PoolSize, threads |-> {1},
   blocks |-> SmallBlocks, vals |-> {0}, maxticks |-> MaxTicks,
   maxpins |-> MaxPins, script |-> FALSE, kill |-> FALSE]

\* One thread that also rewrites payloads and writes them to the device, the
\* clock stopped.
DataCfg ==
  [name |-> "data", nbuf |-> PoolSize, threads |-> {1},
   blocks |-> SmallBlocks, vals |-> 0..MaxVal, maxticks |-> 0,
   maxpins |-> 0, script |-> FALSE, kill |-> FALSE]

\* The scripted scenario: the real pool, one thread reading blocks 0, 1, 2, ...
\* in order and releasing each before the next.
ScenarioCfg ==
  [name |-> "scenario", nbuf |-> NBUF, threads |-> {1},
   blocks |-> 0..NBUF, vals |-> {0}, maxticks |-> MaxTicks, maxpins |-> 0,
   script |-> TRUE, kill |-> FALSE]

Configs == {ConcCfg, PinCfg, UnpinCfg, KillCfg, DataCfg, ScenarioCfg}

Bufs == 0..(cfg.nbuf - 1)

----------------------------------------------------------------------------
(* Helpers *)

RECURSIVE SeqOfRange(_, _)
SeqOfRange(a, b) == IF a > b THEN <<>> ELSE <<a>> \o SeqOfRange(a + 1, b)

\* A move that leaves the buffer linked in the chain it comes from.
C14_NoRemove(s, b) == s

RECURSIVE RemoveFirst(_, _)
RemoveFirst(s, b) ==
  IF s = <<>> THEN <<>>
  ELSE IF Head(s) = b THEN Tail(s)
  ELSE <<Head(s)>> \o RemoveFirst(Tail(s), b)

IdleLoc ==
  [dev |-> 0, blk |-> 0, bucket |-> 0, j |-> 0, index |-> -1, min_tick |-> 0,
   bp |-> NoBuf, wasValid |-> FALSE, didRead |-> FALSE, missed |-> FALSE]

\* blockno % NBUCKET
Hash(blk) == blk % NBUCKET

\* Thread t stands at p and the kernel runs: a panic halts it for good.
At(t, p) == panicked = "none" /\ pc[t] = p

----------------------------------------------------------------------------
(* spinlock.c / sleeplock.c primitives *)

\* holding(&bcache.lock[i])
holding(t, i) == lock[i] = t

\* holdingsleep(&b->lock)
holdingsleep(t, b) == slk[b].locked = 1 /\ slk[b].pid = t

\* acquiresleep(&b->lock) can proceed
sleepfree(b) == slk[b].locked = 0

----------------------------------------------------------------------------
(* binit *)

InitCfg(c) ==
  /\ cfg = c
  /\ dev = [b \in 0..(c.nbuf - 1) |-> 0]
  /\ blockno = [b \in 0..(c.nbuf - 1) |-> 0]
  /\ valid = [b \in 0..(c.nbuf - 1) |-> 0]
  /\ refcnt = [b \in 0..(c.nbuf - 1) |-> 0]
  /\ time = [b \in 0..(c.nbuf - 1) |-> 0]
  /\ data = [b \in 0..(c.nbuf - 1) |-> 0]
  /\ chain = [i \in Buckets |-> IF i = 0 THEN SeqOfRange(0, c.nbuf - 1) ELSE <<>>]
  /\ lock = [i \in Buckets |-> 0]
  /\ slk = [b \in 0..(c.nbuf - 1) |-> [locked |-> 0, pid |-> 0]]
  /\ ticks = 0
  /\ disk = [d \in Devs |-> [k \in c.blocks |-> 0]]
  /\ panicked = "none"
  /\ pc = [t \in Threads |-> "idle"]
  /\ loc = [t \in Threads |-> IdleLoc]
  /\ held = [t \in Threads |-> {}]
  /\ pinned = [b \in 0..(c.nbuf - 1) |-> 0]
  /\ dirty = [b \in 0..(c.nbuf - 1) |-> FALSE]
  /\ origin = [b \in 0..(c.nbuf - 1) |-> <<0, 0>>]
  /\ killed = [t \in Threads |-> "no"]
  /\ nreq = 0

Init == \E c \in Configs : InitCfg(c)

----------------------------------------------------------------------------
(* can_lock and the pure parts of bget *)

\* A rule that admits every bucket but the scanner's own.
C15_CanLockOthers(cur_idx, req_idx) == IF cur_idx = req_idx THEN 0 ELSE 1

\* A rule with the two return values exchanged: it admits the near half of the
\* ring.
C16_CanLockNear(cur_idx, req_idx) ==
  LET mid == NBUCKET \div 2 IN
  IF cur_idx = req_idx THEN 0
  ELSE IF cur_idx < req_idx
       THEN (IF req_idx <= cur_idx + mid THEN 1 ELSE 0)
       ELSE (IF cur_idx >= req_idx + mid THEN 1 ELSE 0)

\* can_lock(cur_idx, req_idx)
can_lock(cur_idx, req_idx) ==
  LET mid == NBUCKET \div 2 IN
  IF cur_idx = req_idx THEN 0
  ELSE IF cur_idx < req_idx
       THEN (IF req_idx <= cur_idx + mid THEN 0 ELSE 1)
       ELSE (IF cur_idx >= req_idx + mid THEN 0 ELSE 1)

\* The for loop's "continue": the first j >= from that the scan locks, or NBUCKET.
RECURSIVE NextLockable(_, _)
NextLockable(cur, from) ==
  IF from >= NBUCKET THEN NBUCKET
  ELSE IF can_lock(cur, from) = 1 THEN from
  ELSE NextLockable(cur, from + 1)

\* A lookup whose comparison never matches.
C2_FindCachedNever(s, d, blk) == NoBuf

\* The "already cached?" walk of a chain: the first buffer with the identity.
RECURSIVE FindCached(_, _, _)
FindCached(s, d, blk) ==
  IF s = <<>> THEN NoBuf
  ELSE IF dev[Head(s)] = d /\ blockno[Head(s)] = blk THEN Head(s)
  ELSE FindCached(Tail(s), d, blk)

\* A scan that leaves out the refcnt test.
C5_UnusedAlways(b) == TRUE

\* b->refcnt == 0
Unused(b) == refcnt[b] = 0

\* The inner while loop of the scan over one chain: the running minimum, and
\* whether this chain lowered it (index = j).
RECURSIVE ScanChain(_, _, _)
ScanChain(s, mt, found) ==
  IF s = <<>> THEN [min_tick |-> mt, found |-> found]
  ELSE IF Unused(Head(s)) /\ time[Head(s)] < mt
       THEN ScanChain(Tail(s), time[Head(s)], TRUE)
       ELSE ScanChain(Tail(s), mt, found)

\* The move loop: the first buffer of the chain with refcnt 0 and time min_tick.
RECURSIVE Victim(_, _)
Victim(s, mt) ==
  IF s = <<>> THEN NoBuf
  ELSE IF Unused(Head(s)) /\ time[Head(s)] = mt THEN Head(s)
  ELSE Victim(Tail(s), mt)

\* virtio_disk_rw(b, 0): what the device holds for the buffer's block.
DiskAt(d, k) ==
  IF d \in DOMAIN disk /\ k \in DOMAIN disk[d] THEN disk[d][k] ELSE 0

----------------------------------------------------------------------------
(* bread / bget *)

\* A caller asks for a block it does not already hold.
BreadCall(t, d, blk) ==
  /\ At(t, "idle")
  /\ \A b \in held[t] : ~(dev[b] = d /\ blockno[b] = blk)
  /\ IF cfg.script
     THEN /\ held[t] = {}
          /\ blk = nreq
          /\ nreq' = nreq + 1
     ELSE nreq' = nreq
  /\ pc' = [pc EXCEPT ![t] = "bget_acq"]
  /\ loc' = [loc EXCEPT ![t] = [IdleLoc EXCEPT !.dev = d, !.blk = blk,
                                               !.bucket = Hash(blk)]]
  /\ UNCHANGED <<cfg, origin, killed, dev, blockno, valid, refcnt, time, data, chain, lock, slk,
                 ticks, disk, panicked, held, pinned, dirty>>

\* acquire(&bcache.lock[bucket_id])
BgetAcquire(t) ==
  /\ At(t, "bget_acq")
  /\ lock[loc[t].bucket] = 0
  /\ lock' = [lock EXCEPT ![loc[t].bucket] = t]
  /\ pc' = [pc EXCEPT ![t] = "bget_lookup"]
  /\ UNCHANGED <<cfg, origin, killed, dev, blockno, valid, refcnt, time, data, chain, slk, ticks,
                 disk, panicked, loc, held, pinned, nreq, dirty>>

\* A hit that does not count its reference.
C19_HitNoRef(t) ==
  /\ At(t, "bget_lookup")
  /\ LET b == FindCached(chain[loc[t].bucket], loc[t].dev, loc[t].blk) IN
     /\ b # NoBuf
     /\ lock' = [lock EXCEPT ![loc[t].bucket] = 0]
     /\ loc' = [loc EXCEPT ![t].bp = b]
  /\ pc' = [pc EXCEPT ![t] = "bget_sleep"]
  /\ UNCHANGED <<cfg, origin, killed, dev, blockno, valid, refcnt, time, data, chain, slk,
                 ticks, disk, panicked, held, pinned, nreq, dirty>>

\* The block is cached: refcnt++, release the bucket lock.
BgetHit(t) ==
  /\ At(t, "bget_lookup")
  /\ LET b == FindCached(chain[loc[t].bucket], loc[t].dev, loc[t].blk) IN
     /\ b # NoBuf
     /\ refcnt' = [refcnt EXCEPT ![b] = @ + 1]
     /\ lock' = [lock EXCEPT ![loc[t].bucket] = 0]
     /\ loc' = [loc EXCEPT ![t].bp = b]
  /\ pc' = [pc EXCEPT ![t] = "bget_sleep"]
  /\ UNCHANGED <<cfg, origin, killed, dev, blockno, valid, time, data, chain, slk, ticks, disk,
                 panicked, held, pinned, nreq, dirty>>

\* Not cached: start the scan for a victim, the bucket lock still held.
BgetMiss(t) ==
  /\ At(t, "bget_lookup")
  /\ FindCached(chain[loc[t].bucket], loc[t].dev, loc[t].blk) = NoBuf
  /\ LET j0 == NextLockable(loc[t].bucket, 0) IN
     /\ loc' = [loc EXCEPT ![t].j = j0, ![t].index = -1,
                           ![t].min_tick = MinTickInit, ![t].missed = TRUE]
     /\ pc' = [pc EXCEPT ![t] = IF j0 < NBUCKET THEN "scan_acq" ELSE "bget_evict"]
  /\ UNCHANGED <<cfg, origin, killed, dev, blockno, valid, refcnt, time, data, chain, lock, slk,
                 ticks, disk, panicked, held, pinned, nreq, dirty>>

\* acquire(&bcache.lock[j]) inside the scan
ScanAcquire(t) ==
  /\ At(t, "scan_acq")
  /\ lock[loc[t].j] = 0
  /\ lock' = [lock EXCEPT ![loc[t].j] = t]
  /\ pc' = [pc EXCEPT ![t] = "scan_body"]
  /\ UNCHANGED <<cfg, origin, killed, dev, blockno, valid, refcnt, time, data, chain, slk, ticks,
                 disk, panicked, loc, held, pinned, nreq, dirty>>

\* A scan that releases no lock.
C13_ScanKeepsLocks(t, j, index, found) == lock

\* The locks after one iteration over bucket j: a superseded candidate's lock is
\* dropped, and lock[j] is dropped unless j is the new candidate.
LocksAfterScan(t, j, index, found) ==
  LET newindex == IF found THEN j ELSE index IN
  [i \in Buckets |->
     IF found /\ i = index /\ index # -1 /\ index # j /\ holding(t, i) THEN 0
     ELSE IF i = j /\ j # newindex /\ holding(t, i) THEN 0
     ELSE lock[i]]

\* One iteration of the scan over bucket j, up to the next acquire.
ScanBody(t) ==
  /\ At(t, "scan_body")
  /\ LET j == loc[t].j
         r == ScanChain(chain[j], loc[t].min_tick, FALSE)
         jn == NextLockable(loc[t].bucket, j + 1)
     IN
     /\ lock' = LocksAfterScan(t, j, loc[t].index, r.found)
     /\ loc' = [loc EXCEPT ![t].min_tick = r.min_tick,
                           ![t].index = IF r.found THEN j ELSE @,
                           ![t].j = jn]
     /\ pc' = [pc EXCEPT ![t] = IF jn < NBUCKET THEN "scan_acq" ELSE "bget_evict"]
  /\ UNCHANGED <<cfg, origin, killed, dev, blockno, valid, refcnt, time, data, chain, slk, ticks,
                 disk, panicked, held, pinned, nreq, dirty>>

\* A recycling that leaves the valid flag as it was.
C9_ValidKept(v) == valid[v]

\* A recycling that marks the buffer valid.
C20_ValidSet(v) == 1

\* b->next->valid = 0: the valid flag of the buffer being recycled
RecycledValid(v) == 0

\* index == -1: panic("bget: no buffers")
BgetNoBuffers(t) ==
  /\ At(t, "bget_evict")
  /\ loc[t].index = -1
  /\ panicked' = "bget: no buffers"
  /\ pc' = [pc EXCEPT ![t] = "panic"]
  /\ UNCHANGED <<cfg, origin, killed, dev, blockno, valid, refcnt, time, data, chain, lock, slk,
                 ticks, disk, loc, held, pinned, nreq, dirty>>

\* Re-identify the victim, unlink it from bucket[index], release lock[index].
BgetUnlink(t) ==
  /\ At(t, "bget_evict")
  /\ loc[t].index # -1
  /\ LET index == loc[t].index
         v == Victim(chain[index], loc[t].min_tick)
     IN
     IF v = NoBuf
     THEN \* move stays 0 and is dereferenced
          /\ panicked' = "kerneltrap"
          /\ pc' = [pc EXCEPT ![t] = "panic"]
          /\ UNCHANGED <<dev, blockno, valid, refcnt, chain, lock, loc, dirty>>
     ELSE /\ dev' = [dev EXCEPT ![v] = loc[t].dev]
          /\ blockno' = [blockno EXCEPT ![v] = loc[t].blk]
          /\ valid' = [valid EXCEPT ![v] = RecycledValid(v)]
          /\ refcnt' = [refcnt EXCEPT ![v] = 1]
          /\ chain' = [chain EXCEPT ![index] = RemoveFirst(@, v)]
          /\ lock' = [lock EXCEPT ![index] = 0]
          /\ dirty' = [dirty EXCEPT ![v] = FALSE]
          /\ loc' = [loc EXCEPT ![t].bp = v]
          /\ pc' = [pc EXCEPT ![t] = "bget_append"]
          /\ UNCHANGED panicked
  /\ UNCHANGED <<cfg, origin, killed, time, data, slk, ticks, disk, held, pinned, nreq>>

\* Append the buffer to bucket[bucket_id], release lock[bucket_id].
BgetAppend(t) ==
  /\ At(t, "bget_append")
  /\ chain' = [chain EXCEPT ![loc[t].bucket] = Append(@, loc[t].bp)]
  /\ lock' = [lock EXCEPT ![loc[t].bucket] = 0]
  /\ pc' = [pc EXCEPT ![t] = "bget_sleep"]
  /\ UNCHANGED <<cfg, origin, killed, dev, blockno, valid, refcnt, time, data, slk, ticks, disk,
                 panicked, loc, held, pinned, nreq, dirty>>

\* A bget that returns the buffer without waiting for its content lock.
C1_BgetNoSleep(t) ==
  /\ At(t, "bget_sleep")
  /\ held' = [held EXCEPT ![t] = @ \cup {loc[t].bp}]
  /\ loc' = [loc EXCEPT ![t].wasValid = (valid[loc[t].bp] = 1)]
  /\ pc' = [pc EXCEPT ![t] = "bread_io"]
  /\ UNCHANGED <<cfg, origin, killed, dev, blockno, valid, refcnt, time, data, chain, lock, slk,
                 ticks, disk, panicked, pinned, nreq, dirty>>

\* A bget that gives up when the thread has been sent a termination signal: it
\* returns to the caller without the content lock.
C18_SleepAbandons(t) ==
  /\ At(t, "bget_sleep")
  /\ IF killed[t] # "no"
     THEN /\ pc' = [pc EXCEPT ![t] = "idle"]
          /\ loc' = [loc EXCEPT ![t] = IdleLoc]
          /\ killed' = [killed EXCEPT ![t] = "no"]
          /\ UNCHANGED <<slk, held>>
     ELSE /\ sleepfree(loc[t].bp)
          /\ slk' = [slk EXCEPT ![loc[t].bp] = [locked |-> 1, pid |-> t]]
          /\ held' = [held EXCEPT ![t] = @ \cup {loc[t].bp}]
          /\ loc' = [loc EXCEPT ![t].wasValid = (valid[loc[t].bp] = 1)]
          /\ pc' = [pc EXCEPT ![t] = "bread_io"]
          /\ UNCHANGED killed
  /\ UNCHANGED <<cfg, origin, dev, blockno, valid, refcnt, time, data, chain, lock, ticks,
                 disk, panicked, pinned, nreq, dirty>>

\* acquiresleep(&b->lock); return b
BgetSleep(t) ==
  /\ At(t, "bget_sleep")
  /\ sleepfree(loc[t].bp)
  /\ slk' = [slk EXCEPT ![loc[t].bp] = [locked |-> 1, pid |-> t]]
  /\ held' = [held EXCEPT ![t] = @ \cup {loc[t].bp}]
  /\ loc' = [loc EXCEPT ![t].wasValid = (valid[loc[t].bp] = 1)]
  /\ pc' = [pc EXCEPT ![t] = "bread_io"]
  /\ UNCHANGED <<cfg, origin, killed, dev, blockno, valid, refcnt, time, data, chain, lock, ticks,
                 disk, panicked, pinned, nreq, dirty>>

\* A bread that reads the device whatever the valid flag says.
C7_AlwaysRead(b) == TRUE

\* !b->valid
NeedsRead(b) == valid[b] = 0

\* if(!b->valid){ virtio_disk_rw(b, 0); b->valid = 1; }
BreadIO(t) ==
  /\ At(t, "bread_io")
  /\ LET b == loc[t].bp IN
     IF NeedsRead(b)
     THEN /\ data' = [data EXCEPT ![b] = DiskAt(dev[b], blockno[b])]
          /\ valid' = [valid EXCEPT ![b] = 1]
          /\ dirty' = [dirty EXCEPT ![b] = FALSE]
          /\ origin' = [origin EXCEPT ![b] = <<dev[b], blockno[b]>>]
          /\ loc' = [loc EXCEPT ![t].didRead = TRUE]
     ELSE UNCHANGED <<data, valid, loc, dirty, origin>>
  /\ pc' = [pc EXCEPT ![t] = "bread_ret"]
  /\ UNCHANGED <<cfg, killed, dev, blockno, refcnt, time, chain, lock, slk, ticks, disk,
                 panicked, held, pinned, nreq>>

\* return b
BreadReturn(t) ==
  /\ At(t, "bread_ret")
  /\ pc' = [pc EXCEPT ![t] = "idle"]
  /\ loc' = [loc EXCEPT ![t] = IdleLoc]
  /\ killed' = [killed EXCEPT ![t] = "no"]
  /\ UNCHANGED <<cfg, origin, dev, blockno, valid, refcnt, time, data, chain, lock, slk,
                 ticks, disk, panicked, held, pinned, nreq, dirty>>

----------------------------------------------------------------------------
(* The holder's use of a buffer, and bwrite *)

\* The holder of a buffer rewrites its payload (b->data).
Modify(t, b, v) ==
  /\ At(t, "idle")
  /\ b \in held[t]
  /\ v # data[b]
  /\ data' = [data EXCEPT ![b] = v]
  /\ dirty' = [dirty EXCEPT ![b] = TRUE]
  /\ UNCHANGED <<cfg, origin, killed, dev, blockno, valid, refcnt, time, chain, lock, slk, ticks,
                 disk, panicked, pc, loc, held, pinned, nreq>>

\* virtio_disk_rw(b, 1): the device now holds the payload for the buffer's block.
DiskWrite(b) ==
  IF dev[b] \in DOMAIN disk /\ blockno[b] \in DOMAIN disk[dev[b]]
  THEN [disk EXCEPT ![dev[b]][blockno[b]] = data[b]]
  ELSE disk

\* A bwrite without the holdingsleep check.
C8_NoCheck(t, b) == TRUE

\* if(!holdingsleep(&b->lock)) panic("bwrite")
BwriteCheck(t, b) == holdingsleep(t, b)

\* A caller hands bwrite any buffer of the pool (the scripted caller, one it holds).
BwriteCall(t, b) ==
  /\ At(t, "idle")
  /\ cfg.script => b \in held[t]
  /\ pc' = [pc EXCEPT ![t] = "bwrite"]
  /\ loc' = [loc EXCEPT ![t].bp = b]
  /\ UNCHANGED <<cfg, origin, killed, dev, blockno, valid, refcnt, time, data, chain, lock, slk,
                 ticks, disk, panicked, held, pinned, nreq, dirty>>

\* bwrite(b): the check, then the device write
Bwrite(t) ==
  /\ At(t, "bwrite")
  /\ IF ~BwriteCheck(t, loc[t].bp)
     THEN /\ panicked' = "bwrite"
          /\ pc' = [pc EXCEPT ![t] = "panic"]
          /\ UNCHANGED <<disk, loc, dirty, killed>>
     ELSE /\ disk' = DiskWrite(loc[t].bp)
          /\ dirty' = [dirty EXCEPT ![loc[t].bp] = FALSE]
          /\ killed' = [killed EXCEPT ![t] = "no"]
          /\ pc' = [pc EXCEPT ![t] = "idle"]
          /\ loc' = [loc EXCEPT ![t] = IdleLoc]
          /\ UNCHANGED panicked
  /\ UNCHANGED <<cfg, origin, dev, blockno, valid, refcnt, time, data, chain, lock, slk,
                 ticks, held, pinned, nreq>>

----------------------------------------------------------------------------
(* brelse *)

\* if(!holdingsleep(&b->lock)) panic("brelse")
BrelseCheck(t, b) == holdingsleep(t, b)

\* A caller hands brelse any buffer of the pool (the scripted caller, one it holds).
BrelseCall(t, b) ==
  /\ At(t, "idle")
  /\ cfg.script => b \in held[t]
  /\ pc' = [pc EXCEPT ![t] = "brelse"]
  /\ loc' = [loc EXCEPT ![t].bp = b]
  /\ UNCHANGED <<cfg, origin, killed, dev, blockno, valid, refcnt, time, data, chain, lock, slk,
                 ticks, disk, panicked, held, pinned, nreq, dirty>>

\* brelse(b): the check, releasesleep, and the read of b->blockno that picks
\* the bucket.
Brelse(t) ==
  /\ At(t, "brelse")
  /\ LET b == loc[t].bp IN
     IF ~BrelseCheck(t, b)
     THEN /\ panicked' = "brelse"
          /\ pc' = [pc EXCEPT ![t] = "panic"]
          /\ UNCHANGED <<slk, held, loc>>
     ELSE /\ slk' = [slk EXCEPT ![b] = [locked |-> 0, pid |-> 0]]
          /\ held' = [held EXCEPT ![t] = @ \ {b}]
          /\ loc' = [loc EXCEPT ![t].bucket = Hash(blockno[b])]
          /\ pc' = [pc EXCEPT ![t] = "brelse_acq"]
          /\ UNCHANGED panicked
  /\ UNCHANGED <<cfg, origin, killed, dev, blockno, valid, refcnt, time, data, chain, lock, ticks,
                 disk, pinned, nreq, dirty>>

\* A brelse that goes on without taking the bucket lock.
C17_NoAcquire(t) ==
  /\ At(t, "brelse_acq")
  /\ pc' = [pc EXCEPT ![t] = "brelse_dec"]
  /\ UNCHANGED <<cfg, origin, killed, dev, blockno, valid, refcnt, time, data, chain, lock, slk,
                 ticks, disk, panicked, loc, held, pinned, nreq, dirty>>

\* acquire(&bcache.lock[bucket_id]) in brelse
BrelseAcquire(t) ==
  /\ At(t, "brelse_acq")
  /\ lock[loc[t].bucket] = 0
  /\ lock' = [lock EXCEPT ![loc[t].bucket] = t]
  /\ pc' = [pc EXCEPT ![t] = "brelse_dec"]
  /\ UNCHANGED <<cfg, origin, killed, dev, blockno, valid, refcnt, time, data, chain, slk, ticks,
                 disk, panicked, loc, held, pinned, nreq, dirty>>

\* b->refcnt--; if (b->refcnt == 0) b->time = ticks; release
BrelseDec(t) ==
  /\ At(t, "brelse_dec")
  /\ LET b == loc[t].bp IN
     /\ refcnt' = [refcnt EXCEPT ![b] = @ - 1]
     /\ time' = [time EXCEPT ![b] = IF refcnt[b] - 1 = 0 THEN ticks ELSE @]
  /\ lock' = [lock EXCEPT ![loc[t].bucket] = 0]
  /\ pc' = [pc EXCEPT ![t] = "idle"]
  /\ loc' = [loc EXCEPT ![t] = IdleLoc]
  /\ killed' = [killed EXCEPT ![t] = "no"]
  /\ UNCHANGED <<cfg, origin, dev, blockno, valid, data, chain, slk, ticks, disk, panicked,
                 held, pinned, nreq, dirty>>

----------------------------------------------------------------------------
(* bpin / bunpin.  bpin is called by the holder of the buffer, as the log does; *)
(* bunpin undoes an earlier bpin and needs no content lock.                     *)

Bpin(t, b) ==
  /\ At(t, "idle")
  /\ b \in held[t]
  /\ pinned[b] < cfg.maxpins
  /\ loc' = [loc EXCEPT ![t].bp = b, ![t].bucket = Hash(blockno[b])]
  /\ pc' = [pc EXCEPT ![t] = "bpin_acq"]
  /\ UNCHANGED <<cfg, origin, killed, dev, blockno, valid, refcnt, time, data, chain, lock, slk,
                 ticks, disk, panicked, held, pinned, nreq, dirty>>

BpinAcquire(t) ==
  /\ At(t, "bpin_acq")
  /\ lock[loc[t].bucket] = 0
  /\ lock' = [lock EXCEPT ![loc[t].bucket] = t]
  /\ pc' = [pc EXCEPT ![t] = "bpin_inc"]
  /\ UNCHANGED <<cfg, origin, killed, dev, blockno, valid, refcnt, time, data, chain, slk, ticks,
                 disk, panicked, loc, held, pinned, nreq, dirty>>

BpinInc(t) ==
  /\ At(t, "bpin_inc")
  /\ refcnt' = [refcnt EXCEPT ![loc[t].bp] = @ + 1]
  /\ pinned' = [pinned EXCEPT ![loc[t].bp] = @ + 1]
  /\ lock' = [lock EXCEPT ![loc[t].bucket] = 0]
  /\ pc' = [pc EXCEPT ![t] = "idle"]
  /\ loc' = [loc EXCEPT ![t] = IdleLoc]
  /\ killed' = [killed EXCEPT ![t] = "no"]
  /\ UNCHANGED <<cfg, origin, dev, blockno, valid, time, data, chain, slk, ticks, disk,
                 panicked, held, nreq, dirty>>

\* The bunpin calls on buffer b that are under way.
Unpinning(b) ==
  Cardinality({u \in Threads : pc[u] \in {"bunpin_acq", "bunpin_dec"} /\ loc[u].bp = b})

\* Every bunpin matches a bpin that no other bunpin has undone or is undoing.
Bunpin(t, b) ==
  /\ At(t, "idle")
  /\ pinned[b] > Unpinning(b)
  /\ loc' = [loc EXCEPT ![t].bp = b, ![t].bucket = Hash(blockno[b])]
  /\ pc' = [pc EXCEPT ![t] = "bunpin_acq"]
  /\ UNCHANGED <<cfg, origin, killed, dev, blockno, valid, refcnt, time, data, chain, lock, slk,
                 ticks, disk, panicked, held, pinned, nreq, dirty>>

BunpinAcquire(t) ==
  /\ At(t, "bunpin_acq")
  /\ lock[loc[t].bucket] = 0
  /\ lock' = [lock EXCEPT ![loc[t].bucket] = t]
  /\ pc' = [pc EXCEPT ![t] = "bunpin_dec"]
  /\ UNCHANGED <<cfg, origin, killed, dev, blockno, valid, refcnt, time, data, chain, slk, ticks,
                 disk, panicked, loc, held, pinned, nreq, dirty>>

BunpinDec(t) ==
  /\ At(t, "bunpin_dec")
  /\ refcnt' = [refcnt EXCEPT ![loc[t].bp] = @ - 1]
  /\ pinned' = [pinned EXCEPT ![loc[t].bp] = @ - 1]
  /\ lock' = [lock EXCEPT ![loc[t].bucket] = 0]
  /\ pc' = [pc EXCEPT ![t] = "idle"]
  /\ loc' = [loc EXCEPT ![t] = IdleLoc]
  /\ killed' = [killed EXCEPT ![t] = "no"]
  /\ UNCHANGED <<cfg, origin, dev, blockno, valid, time, data, chain, slk, ticks, disk,
                 panicked, held, nreq, dirty>>

----------------------------------------------------------------------------
(* Termination signals *)

\* kill(pid) sets p->killed of a thread that is inside a cache operation; the
\* thread is suspended on a content lock, or running.
Kill(t) ==
  /\ panicked = "none"
  /\ cfg.kill
  /\ pc[t] # "idle"
  /\ killed[t] = "no"
  /\ killed' = [killed EXCEPT ![t] =
                  IF pc[t] = "bget_sleep" /\ ~sleepfree(loc[t].bp)
                  THEN "waiting" ELSE "running"]
  /\ UNCHANGED <<cfg, origin, dev, blockno, valid, refcnt, time, data, chain, lock, slk,
                 ticks, disk, panicked, pc, loc, held, pinned, nreq, dirty>>

----------------------------------------------------------------------------
(* The clock *)

\* The timer interrupt: ticks++
Tick ==
  /\ panicked = "none"
  /\ ticks < cfg.maxticks
  /\ ticks' = ticks + 1
  /\ UNCHANGED <<cfg, origin, killed, dev, blockno, valid, refcnt, time, data, chain, lock, slk,
                 disk, panicked, pc, loc, held, pinned, nreq, dirty>>

----------------------------------------------------------------------------

Next ==
  \/ Tick
  \/ \E t \in cfg.threads : Kill(t)
  \/ \E t \in cfg.threads, d \in Devs, blk \in cfg.blocks : BreadCall(t, d, blk)
  \/ \E t \in cfg.threads : BgetAcquire(t)
  \/ \E t \in cfg.threads : BgetHit(t)
  \/ \E t \in cfg.threads : BgetMiss(t)
  \/ \E t \in cfg.threads : ScanAcquire(t)
  \/ \E t \in cfg.threads : ScanBody(t)
  \/ \E t \in cfg.threads : BgetNoBuffers(t)
  \/ \E t \in cfg.threads : BgetUnlink(t)
  \/ \E t \in cfg.threads : BgetAppend(t)
  \/ \E t \in cfg.threads : BgetSleep(t)
  \/ \E t \in cfg.threads : BreadIO(t)
  \/ \E t \in cfg.threads : BreadReturn(t)
  \/ \E t \in cfg.threads, b \in Bufs, v \in cfg.vals : Modify(t, b, v)
  \/ \E t \in cfg.threads, b \in Bufs : BwriteCall(t, b)
  \/ \E t \in cfg.threads : Bwrite(t)
  \/ \E t \in cfg.threads, b \in Bufs : BrelseCall(t, b)
  \/ \E t \in cfg.threads : Brelse(t)
  \/ \E t \in cfg.threads : BrelseAcquire(t)
  \/ \E t \in cfg.threads : BrelseDec(t)
  \/ \E t \in cfg.threads, b \in Bufs : Bpin(t, b)
  \/ \E t \in cfg.threads : BpinAcquire(t)
  \/ \E t \in cfg.threads : BpinInc(t)
  \/ \E t \in cfg.threads, b \in Bufs : Bunpin(t, b)
  \/ \E t \in cfg.threads : BunpinAcquire(t)
  \/ \E t \in cfg.threads : BunpinDec(t)

Spec == Init /\ [][Next]_vars

----------------------------------------------------------------------------
(* Properties *)

\* The threads that hold buffer b's content lock, as their callers see it.
Holders(b) == {t \in Threads : b \in held[t]}

\* bget has returned to bread in thread t.
Returned(t) == pc[t] \in {"bread_io", "bread_ret"}

\* C1: at any instant at most one thread holds a given buffer's content lock.
C1_ContentLockExclusive ==
  \A b \in Bufs :
    /\ Cardinality(Holders(b)) <= 1
    /\ \A t \in Holders(b) : holdingsleep(t, b)

\* C1's case: one thread holds the buffer and another, after a hit on the same
\* block, is blocked on its content lock.
C1_Witness ==
  \E t, u \in Threads :
    /\ t # u
    /\ pc[u] = "bget_sleep"
    /\ loc[u].bp \in held[t]

\* C2: two buffers never carry the same (dev, blockno) while a reference to
\* either exists, the miss path never creates a second buffer for an identity,
\* and a bget for a block that another thread holds gets that very buffer.
C2_Coherence ==
  /\ \A b1, b2 \in Bufs :
       (b1 # b2 /\ dev[b1] = dev[b2] /\ blockno[b1] = blockno[b2])
         => (refcnt[b1] = 0 /\ refcnt[b2] = 0 /\ dev[b1] \notin Devs)
  /\ \A t, u \in Threads : \A b \in held[t] :
       (pc[u] \in {"bget_sleep", "bread_io", "bread_ret"}
          /\ loc[u].dev = dev[b] /\ loc[u].blk = blockno[b])
         => loc[u].bp = b

\* C2's case: a second thread asked for the block the first still holds, and
\* its bget found the same buffer.
C2_Witness ==
  \E t, u \in Threads : \E b \in held[t] :
    /\ t # u
    /\ pc[u] = "bget_sleep"
    /\ loc[u].dev = dev[b] /\ loc[u].blk = blockno[b]
    /\ loc[u].bp = b
    /\ ~loc[u].missed

\* The bucket lock thread t is spinning on, or -1.
WaitLock(t) ==
  IF pc[t] \in {"bget_acq", "brelse_acq", "bpin_acq", "bunpin_acq"} THEN loc[t].bucket
  ELSE IF pc[t] = "scan_acq" THEN loc[t].j
  ELSE -1

\* C3: no set of threads in which every one spins on a bucket lock held by
\* another of the set (a cycle of any length) is ever reached.
C3_NoLockCycle ==
  \A S \in (SUBSET Threads) \ {{}} :
    ~(\A t \in S : /\ panicked = "none"
                   /\ WaitLock(t) # -1
                   /\ lock[WaitLock(t)] \in (S \ {t}))

\* C4: the buffer a miss recycles has the smallest time among all the buffers
\* of the pool whose refcnt is 0.
C4_GlobalLRU ==
  \A t \in Threads :
    pc[t] = "bget_append" =>
      \A b \in Bufs : refcnt[b] = 0 => time[loc[t].bp] <= time[b]

\* C5: the buffer a miss re-identifies had refcnt 0: no thread held it, no
\* thread was waiting for it, and it was not pinned.
C5_NoEvictReferenced ==
  [][\A t \in Threads :
       (pc[t] = "bget_evict" /\ pc'[t] = "bget_append") =>
         LET v == loc'[t].bp IN
         /\ refcnt[v] = 0
         /\ pinned[v] = 0
         /\ \A u \in Threads : v \notin held[u]
         /\ \A u \in Threads : ~(pc[u] = "bget_sleep" /\ loc[u].bp = v)
         /\ \A b \in Bufs :
              (dev'[b] # dev[b] \/ blockno'[b] # blockno[b]) => b = v]_vars

\* C5's case: a miss has just recycled a buffer while another buffer, in a
\* bucket the scan went through, was pinned and no longer held by any thread.
C5_Witness ==
  \E t \in Threads : \E b \in Bufs :
    /\ pc[t] = "bget_append"
    /\ pinned[b] > 0
    /\ \A u \in Threads : b \notin held[u]
    /\ can_lock(loc[t].bucket, Hash(blockno[b])) = 1
    /\ b # loc[t].bp

\* C6: bget panics with "bget: no buffers" only when no buffer of the pool has
\* refcnt 0.
C6_PanicOnlyWhenExhausted ==
  panicked = "bget: no buffers" => \A b \in Bufs : refcnt[b] # 0

\* C7: when bget has returned, the caller holds the buffer's content lock, the
\* buffer carries the identity asked for and refcnt >= 1; when bread returns,
\* the buffer is valid, and the device was read iff bget returned it not valid.
C7_ReturnContract ==
  \A t \in Threads :
    /\ Returned(t) =>
         LET b == loc[t].bp IN
         /\ holdingsleep(t, b)
         /\ b \in held[t]
         /\ dev[b] = loc[t].dev
         /\ blockno[b] = loc[t].blk
         /\ refcnt[b] >= 1
    /\ pc[t] = "bread_ret" =>
         /\ valid[loc[t].bp] = 1
         /\ loc[t].didRead <=> ~loc[t].wasValid

\* C7's case: bread returns a buffer that a hit found valid, without reading
\* the device.
C7_Witness ==
  \E t \in Threads :
    /\ pc[t] = "bread_ret"
    /\ loc[t].wasValid
    /\ ~loc[t].didRead
    /\ ~loc[t].missed

\* C8: bwrite or brelse on a buffer whose content lock the caller does not hold
\* panics, and writes nothing to the device, releases no content lock and
\* changes no refcnt.
C8_LockDiscipline ==
  [][\A t \in Threads :
       /\ (pc[t] = "bwrite" /\ pc'[t] # pc[t] /\ ~holdingsleep(t, loc[t].bp))
            => /\ panicked' = "bwrite"
               /\ pc'[t] = "panic"
               /\ UNCHANGED <<disk, slk, refcnt, held, data, valid>>
       /\ (pc[t] = "brelse" /\ pc'[t] # pc[t] /\ ~holdingsleep(t, loc[t].bp))
            => /\ panicked' = "brelse"
               /\ pc'[t] = "panic"
               /\ UNCHANGED <<disk, slk, refcnt, held, data, valid>>]_vars

\* C8's case: the kernel has panicked in bwrite or brelse, called on a buffer
\* that another thread holds.
C8_Witness ==
  \E t, u \in Threads :
    /\ t # u
    /\ panicked \in {"bwrite", "brelse"}
    /\ pc[t] = "panic"
    /\ loc[t].bp \in held[u]

\* C9: bread returns the payload the device holds for the block, which is the
\* payload of the last bwrite to it, unless a holder has rewritten the cached
\* payload since the device last read or wrote it; so a block stored with
\* payload P, then evicted and read again, comes back with P.
C9_RoundTrip ==
  \A t \in Threads :
    (pc[t] = "bread_ret" /\ ~dirty[loc[t].bp]) =>
      data[loc[t].bp] = DiskAt(loc[t].dev, loc[t].blk)

\* C9's case: the block was stored with payload 1, its buffer was recycled, and
\* the block is read again from the device while another block's payload is 0.
C9_Witness ==
  \E t \in Threads :
    /\ pc[t] = "bread_ret"
    /\ loc[t].missed
    /\ loc[t].didRead
    /\ DiskAt(loc[t].dev, loc[t].blk) = 1
    /\ data[loc[t].bp] = 1
    /\ \E k \in cfg.blocks : k # loc[t].blk /\ DiskAt(loc[t].dev, k) = 0

\* The blocks for which the pool holds a buffer.
Resident == {k \in cfg.blocks : \E b \in Bufs : dev[b] \in Devs /\ blockno[b] = k}

\* C10: in the scripted scenario (30 buffers, 13 buckets) no request panics,
\* and after the first k <= 30 requests for blocks 0 .. k-1 have returned and
\* released, all of them are resident.
C10_Scenario ==
  cfg.script =>
    /\ panicked = "none"
    /\ (pc[1] = "idle" /\ held[1] = {} /\ nreq <= NBUF) =>
         \A k \in 0..(nreq - 1) : k \in Resident


\* The references to buffer b that are outstanding: one for every bget that has
\* counted itself and whose brelse has not yet decremented, one for every pin.
Refs(b) ==
  Cardinality({t \in Threads :
                 \/ b \in held[t]
                 \/ (pc[t] \in {"bget_append", "bget_sleep", "brelse_acq", "brelse_dec"}
                       /\ loc[t].bp = b)})
    + pinned[b]

\* C11: refcnt is never negative, it equals the number of outstanding acquires
\* plus pins, and every step that takes refcnt to zero, in brelse or in bunpin,
\* sets the buffer's time to the current ticks.
C11_RefcntAccounting ==
  [][\A b \in Bufs :
       /\ refcnt'[b] >= 0
       /\ panicked' = "none" => refcnt'[b] = Refs(b)'
       /\ (refcnt[b] # 0 /\ refcnt'[b] = 0) => time'[b] = ticks']_vars

\* The bucket locks thread t holds.
LocksHeld(t) == {i \in Buckets : holding(t, i)}

\* C12: at every instant of a bget call, the eviction scan included, the calling
\* thread holds at most two bucket locks.
C12_AtMostTwoLocks ==
  \A t \in Threads : Cardinality(LocksHeld(t)) <= 2

\* C13: a thread holds no bucket lock when it blocks on a content lock, while
\* its device read or write is in progress, and when an operation has returned.
C13_TwoTier ==
  \A t \in Threads :
    pc[t] \in {"idle", "bget_sleep", "bread_io", "bread_ret", "bwrite", "brelse"}
      => LocksHeld(t) = {}

\* C13's case: after a miss, with its scan and move done, one thread is at the
\* device read, and another, after a hit, is blocked on the same buffer's
\* content lock.
C13_Witness ==
  \E t, u \in Threads :
    /\ t # u
    /\ pc[t] = "bread_io" /\ loc[t].missed /\ NeedsRead(loc[t].bp)
    /\ pc[u] = "bget_sleep" /\ loc[u].bp = loc[t].bp /\ ~sleepfree(loc[u].bp)

\* The number of times buffer b is linked in bucket i's chain.
Links(b, i) == Cardinality({k \in 1..Len(chain[i]) : chain[i][k] = b})

\* Buffer b is linked once, in the chain of bucket blockno mod NBUCKET, and in
\* no other chain.
Owned(b) ==
  \A i \in Buckets : Links(b, i) = (IF i = Hash(blockno[b]) THEN 1 ELSE 0)

Scanning(t) == pc[t] \in {"scan_acq", "scan_body"}

\* can_lock over all pairs of buckets: never true in both directions, and
\* never true of a bucket and itself.
NeverMutual == \A c, r \in Buckets : ~(can_lock(c, r) = 1 /\ can_lock(r, c) = 1)
NeverOwn == \A c \in Buckets : can_lock(c, c) = 0

\* C15: for all buckets c, r, can_lock(c, r) and can_lock(r, c) are never both
\* true and can_lock(c, c) is false; so a scan anchored at c never asks for a
\* bucket from which c may be asked for, nor for c itself.
C15_NoMutualReach ==
  /\ NeverMutual
  /\ NeverOwn
  /\ \A t \in Threads :
       Scanning(t) => /\ can_lock(loc[t].j, loc[t].bucket) = 0
                      /\ loc[t].j # loc[t].bucket

\* C15's case: a scan anchored at c asks for bucket r while another thread's
\* scan is anchored at r.
C15_Witness ==
  \E t, u \in Threads :
    /\ t # u
    /\ pc[t] = "scan_acq"
    /\ Scanning(u)
    /\ loc[t].j = loc[u].bucket

\* The forward distance from bucket c to bucket r on the ring.
FwdDist(c, r) == (r - c + NBUCKET) % NBUCKET

\* can_lock over all pairs of buckets: true only of a bucket more than half the
\* ring ahead.
AdmitsOnlyFar ==
  \A c, r \in Buckets : can_lock(c, r) = 1 => 2 * FwdDist(c, r) > NBUCKET

\* C16: can_lock(c, r) = 1 only if the forward distance from c to r exceeds
\* NBUCKET / 2, and the scan never asks for a bucket at a distance of at most
\* NBUCKET / 2 from its own.
C16_OnlyFarHalf ==
  /\ AdmitsOnlyFar
  /\ \A t \in Threads :
       Scanning(t) => 2 * FwdDist(loc[t].bucket, loc[t].j) > NBUCKET

\* C16's case: a scan holds the lock of the nearest bucket the rule admits, at
\* distance NBUCKET / 2 + 1.
C16_Witness ==
  \E t \in Threads :
    /\ pc[t] = "scan_body"
    /\ holding(t, loc[t].j)
    /\ FwdDist(loc[t].bucket, loc[t].j) = (NBUCKET \div 2) + 1

\* The bucket whose chain buffer b is linked in, or -1.
Owner(b) ==
  IF \E i \in Buckets : Links(b, i) > 0
  THEN CHOOSE i \in Buckets : Links(b, i) > 0
  ELSE -1

\* The step thread t takes reads or writes dev, blockno, refcnt or time of
\* buffer b under a bucket lock: the lookup walk, one scan iteration, the move
\* loop, and the refcnt updates of brelse, bpin and bunpin.
LockedAccess(t, b) ==
  /\ pc'[t] # pc[t]
  /\ \/ pc[t] = "bget_lookup" /\ Links(b, loc[t].bucket) > 0
     \/ pc[t] = "scan_body" /\ Links(b, loc[t].j) > 0
     \/ pc[t] = "bget_evict" /\ loc[t].index # -1 /\ Links(b, loc[t].index) > 0
     \/ pc[t] \in {"brelse_dec", "bpin_inc", "bunpin_dec"} /\ b = loc[t].bp

\* The step thread t takes reads b->blockno to pick the bucket, in brelse, bpin
\* or bunpin.
PickAccess(t, b) ==
  \/ pc[t] = "brelse" /\ pc'[t] = "brelse_acq" /\ b = loc[t].bp
  \/ pc[t] = "idle" /\ pc'[t] \in {"bpin_acq", "bunpin_acq"} /\ b = loc'[t].bp

\* C17 as claimed: every read or write of a buffer's dev, blockno, refcnt or
\* time by bget, brelse, bpin or bunpin, the read of blockno that picks the
\* bucket included, is made by a thread holding the lock of the bucket whose
\* chain contains the buffer.
C17_FieldsUnderLock ==
  [][\A t \in Threads : \A b \in Bufs :
       (LockedAccess(t, b) \/ PickAccess(t, b))
         => (Owner(b) # -1 /\ holding(t, Owner(b)))]_vars

\* C17 amended: the same for every access but the read of blockno that picks
\* the bucket in brelse, bpin and bunpin: that one is made with no bucket lock
\* held, on a buffer whose refcnt is at least 1, and the bucket picked is the
\* one whose chain contains the buffer.
C17_FieldsUnderLockAmended ==
  [][\A t \in Threads : \A b \in Bufs :
       /\ LockedAccess(t, b) => (Owner(b) # -1 /\ holding(t, Owner(b)))
       /\ PickAccess(t, b) => /\ LocksHeld(t) = {}
                              /\ refcnt[b] >= 1
                              /\ loc'[t].bucket = Owner(b)]_vars

\* C17's case: brelse has picked the bucket from b->blockno and spins on its
\* lock, which another thread holds.
C17_Witness ==
  \E t, u \in Threads :
    /\ t # u
    /\ pc[t] = "brelse_acq"
    /\ loc[t].bucket = Owner(loc[t].bp)
    /\ holding(u, loc[t].bucket)

\* The last step of each operation, from which it returns to its caller.
LastSteps == {"bread_ret", "bwrite", "brelse_dec", "bpin_inc", "bunpin_dec"}

\* The step leaves thread t inside its operation, or completes the operation.
NotAbandoned(t) == (pc'[t] = "idle" /\ pc[t] # "idle") => pc[t] \in LastSteps

Waited(b) == \E t \in Threads : pc[t] = "bget_sleep" /\ loc[t].bp = b

\* C19: a buffer whose content lock is held, or for whose content lock a thread
\* waits inside bget, has refcnt >= 1; and a buffer that has just been
\* re-identified is not content-locked and has no waiter.
C19_LockedIsReferenced ==
  /\ \A b \in Bufs : (slk[b].locked = 1 \/ Waited(b)) => refcnt[b] >= 1
  /\ \A t \in Threads :
       pc[t] = "bget_append" => (slk[loc[t].bp].locked = 0 /\ ~Waited(loc[t].bp))

\* C19's case: a miss has just re-identified its victim while another thread
\* holds the content lock of a buffer in a bucket the scan went through.
C19_Witness ==
  \E t, u \in Threads : \E b \in held[u] :
    /\ t # u
    /\ pc[t] = "bget_append"
    /\ slk[b].locked = 1
    /\ can_lock(loc[t].bucket, Hash(blockno[b])) = 1

\* C20: a buffer marked valid holds the payload of its current (dev, blockno),
\* in every state, the move of an eviction included; and the buffer bread
\* returns holds the payload of the block asked for, never another block's.
C20_ValidMatchesIdentity ==
  /\ \A b \in Bufs : valid[b] = 1 => origin[b] = <<dev[b], blockno[b]>>
  /\ \A t \in Threads :
       pc[t] = "bread_ret" => origin[loc[t].bp] = <<loc[t].dev, loc[t].blk>>

\* C20's case: a buffer that held another block's payload has been recycled,
\* is linked in its new bucket's chain with the valid flag clear, and bget has
\* returned it to bread.
C20_Witness ==
  \E t \in Threads :
    LET b == loc[t].bp IN
    /\ pc[t] = "bread_io"
    /\ loc[t].missed
    /\ valid[b] = 0
    /\ origin[b][1] \in Devs
    /\ origin[b] # <<dev[b], blockno[b]>>
    /\ Links(b, Hash(blockno[b])) = 1

====
